---- MODULE Spec2Model ----
(***************************************************************************)
(* Changelog migration pipeline (fetch_mdx.py, combine_mdx.py, main.py).   *)
(*                                                                         *)
(* Strings are sequences of one-character strings.  Two implementations    *)
(* of every stage exist in the repository; the variable impl says which    *)
(* one runs: "scripts" is fetch_mdx.py / combine_mdx.py, "main" is main.py.*)
(***************************************************************************)
EXTENDS Integers, Sequences, FiniteSets, TLC

\* ------------------------------------------------------------------ bounds
MaxItems == 3        \* feed items in a fetch or combine run
MaxLinkLen == 3      \* characters of the free tail of a link
MaxContentLen == 5   \* characters of a markdown body given to the heading pass

\* --------------------------------------------------------- program constants
Spaces == 2          \* add_heading_level_and_date(..., spaces=2)

Impls == {"scripts", "main"}

\* ---------------------------------------------------------- string helpers
Unset == <<"UNSET">>
UnsetLines == <<Unset>>

Last(s) == s[Len(s)]

RECURSIVE LStrip(_, _)
LStrip(s, cs) ==
  IF s # <<>> /\ Head(s) \in cs THEN LStrip(Tail(s), cs) ELSE s

RECURSIVE RStrip(_, _)
RStrip(s, cs) ==
  IF s # <<>> /\ Last(s) \in cs THEN RStrip(SubSeq(s, 1, Len(s) - 1), cs) ELSE s

\* str.strip(chars)
Strip(s, cs) == RStrip(LStrip(s, cs), cs)

\* str.find(c): 1-based index of the first c, 0 when absent
RECURSIVE FindFrom(_, _, _)
FindFrom(s, cs, k) ==
  IF k > Len(s) THEN 0
  ELSE IF s[k] \in cs THEN k
  ELSE FindFrom(s, cs, k + 1)

Find(s, c) == FindFrom(s, {c}, 1)

\* str.split(sep): never empty, the empty string splits to <<"">>
RECURSIVE Split(_, _)
Split(s, sep) ==
  LET k == Find(s, sep)
  IN  IF k = 0 THEN <<s>>
      ELSE <<SubSeq(s, 1, k - 1)>> \o Split(SubSeq(s, k + 1, Len(s)), sep)

\* "\n".join(lines)
RECURSIVE Join(_, _)
Join(ls, sep) ==
  IF ls = <<>> THEN <<>>
  ELSE IF Len(ls) = 1 THEN ls[1]
  ELSE ls[1] \o <<sep>> \o Join(Tail(ls), sep)

\* c * n
RECURSIVE Repeat(_, _)
Repeat(c, n) == IF n <= 0 THEN <<>> ELSE <<c>> \o Repeat(c, n - 1)

\* decimal digits of a natural number, no padding
DigitChar(d) == <<"0", "1", "2", "3", "4", "5", "6", "7", "8", "9">>[d + 1]

RECURSIVE Decimal(_)
Decimal(n) ==
  IF n < 10 THEN <<DigitChar(n)>> ELSE Decimal(n \div 10) \o <<DigitChar(n % 10)>>

\* zero-padded to two digits (%d, %m)
Pad2(n) == IF n < 10 THEN <<"0">> \o Decimal(n) ELSE Decimal(n)

\* ------------------------------------------------------------------- slugs
\* Characters a link is built from.  "a" is an ASCII letter, "U+00E9" a
\* non-ASCII letter (e with acute accent), the rest are themselves.
LinkChars == {"a", "_", "-", "/", ".", "?", "#", ":", "U+00E9"}

AsciiLetters == {"a", "b", "c", "d", "h", "v", "x"}
AsciiDigits == {"0", "1", "2", "3", "4", "5", "6", "7", "8", "9"}

\* \w of a str pattern: Unicode letters and digits, and the underscore
IsWordChar(c) == c \in AsciiLetters \cup AsciiDigits \cup {"_", "U+00E9"}

\* re.sub(r"[^\w\-]", "-", slug)
SubNonWord(s) == [k \in 1..Len(s) |-> IF IsWordChar(s[k]) \/ s[k] = "-" THEN s[k] ELSE "-"]

\* re.sub(r"-+", "-", slug)
RECURSIVE CollapseDashes(_)
CollapseDashes(s) ==
  IF Len(s) < 2 THEN s
  ELSE IF s[1] = "-" /\ s[2] = "-" THEN CollapseDashes(Tail(s))
  ELSE <<s[1]>> \o CollapseDashes(Tail(s))

Slugify(seg) == Strip(CollapseDashes(SubNonWord(seg)), {"-"})

\* urllib.parse scheme characters
IsSchemeChar(c) == c \in AsciiLetters \cup AsciiDigits \cup {"+", "-", "."}

\* urlparse(url).path
UrlPath(url) ==
  LET i == Find(url, ":")
      hasScheme == /\ i > 1
                   /\ url[1] \in AsciiLetters
                   /\ \A k \in 1..(i - 1) : IsSchemeChar(url[k])
      u1 == IF hasScheme THEN SubSeq(url, i + 1, Len(url)) ELSE url
      hasNetloc == Len(u1) >= 2 /\ u1[1] = "/" /\ u1[2] = "/"
      delim == FindFrom(u1, {"/", "?", "#"}, 3)
      u2 == IF ~hasNetloc THEN u1
            ELSE IF delim = 0 THEN <<>>
            ELSE SubSeq(u1, delim, Len(u1))
      f == Find(u2, "#")
      u3 == IF f = 0 THEN u2 ELSE SubSeq(u2, 1, f - 1)
      q == Find(u3, "?")
  IN  IF q = 0 THEN u3 ELSE SubSeq(u3, 1, q - 1)

UnknownChangelog == <<"u", "n", "k", "n", "o", "w", "n", "-", "c", "h", "a", "n", "g", "e", "l", "o", "g">>
Unknown == <<"u", "n", "k", "n", "o", "w", "n">>

\* fetch_mdx.py extract_slug_from_url
ExtractSlugFromUrl(url) ==
  LET path_parts == Split(Strip(UrlPath(url), {"/"}), "/")
  IN  IF path_parts # <<>> THEN Slugify(Last(path_parts)) ELSE UnknownChangelog

\* the inline derivation of combine_mdx.py parse_rss_feed and main.py get_changelog_rss
FeedSlug(link) ==
  LET parsed_path == Split(Strip(link, {"/"}), "/")
  IN  Slugify(IF parsed_path # <<>> THEN Last(parsed_path) ELSE Unknown)

\* ------------------------------------------------------------------- dates
\* A pubDate text "<wd>, <day> <mon> <year> <hour>:00:00 <tz>", kept by its fields.
MonthAbbrevs == <<"Jan", "Feb", "Mar", "Apr", "May", "Jun", "Jul", "Aug", "Sep", "Oct", "Nov", "Dec">>
MonthNames == <<"January", "February", "March", "April", "May", "June", "July",
                "August", "September", "October", "November", "December">>

PubDate(d, mon, y, h, tz) == [day |-> d, mon |-> mon, year |-> y, hour |-> h, tz |-> tz]

\* the pubDate values feeds are built from; the last one has a numeric zone
PubDates == { PubDate(5, "Nov", 999, 10, "GMT"),
              PubDate(3, "Feb", 2024, 10, "GMT"),
              PubDate(20, "Feb", 2024, 9, "UTC"),
              PubDate(7, "Nov", 2024, 10, "GMT"),
              PubDate(7, "Nov", 2024, 10, "+0000") }

\* whether datetime.strptime(pub_date, "%a, %d %b %Y %H:%M:%S %Z") returns
\* (%Z matches UTC and GMT, not a numeric offset)
StrptimeOk(pd) ==
  /\ pd.tz \in {"GMT", "UTC"}
  /\ \E m \in 1..12 : MonthAbbrevs[m] = pd.mon
  /\ pd.day \in 1..31 /\ pd.hour \in 0..23 /\ pd.year \in 1..9999

\* the naive datetime strptime returns
Strptime(pd) ==
  [year |-> pd.year, month |-> CHOOSE m \in 1..12 : MonthAbbrevs[m] = pd.mon,
   day |-> pd.day, hour |-> pd.hour]

ParseableDates == {pd \in PubDates : StrptimeOk(pd)}

NoDatetime == [year |-> 0, month |-> 0, day |-> 0, hour |-> 0]
DatetimeMin == [year |-> 1, month |-> 1, day |-> 1, hour |-> 0]

\* dt.strftime("%Y-%m"): the C library does not pad %Y
MonthYearKey(dt) == Decimal(dt.year) \o <<"-">> \o Pad2(dt.month)

\* the pubDate text as it stands in the feed
RawPubDate(pd) ==
  Pad2(pd.day) \o <<" ", pd.mon, " ">> \o Decimal(pd.year) \o <<" ">> \o Pad2(pd.hour) \o <<" ", pd.tz>>

ValueError == <<"ValueError">>

\* format_date_for_label: "%B %Y"; combine_mdx.py falls back to the raw text,
\* main.py lets the ValueError out
FormatDateForLabel(im, pd) ==
  IF StrptimeOk(pd)
  THEN <<MonthNames[Strptime(pd).month], " ">> \o Decimal(pd.year)
  ELSE IF im = "scripts" THEN RawPubDate(pd) ELSE ValueError

\* format_full_date: "%B %d, %Y"
FormatFullDate(im, pd) ==
  IF StrptimeOk(pd)
  THEN <<MonthNames[Strptime(pd).month], " ">> \o Pad2(pd.day) \o <<",", " ">> \o Decimal(pd.year)
  ELSE IF im = "scripts" THEN RawPubDate(pd) ELSE ValueError

\* datetime comparison
DtLess(a, b) ==
  \/ a.year < b.year
  \/ a.year = b.year /\ a.month < b.month
  \/ a.year = b.year /\ a.month = b.month /\ a.day < b.day
  \/ a.year = b.year /\ a.month = b.month /\ a.day = b.day /\ a.hour < b.hour

\* code point order of the characters bucket keys are made of
Ord(c) ==
  CASE c = "-" -> 45
    [] c \in AsciiDigits -> 48 + (CHOOSE d \in 0..9 : DigitChar(d) = c)
    [] c = "k" -> 107 [] c = "n" -> 110 [] c = "o" -> 111
    [] c = "u" -> 117 [] c = "w" -> 119

\* str comparison
RECURSIVE StrLess(_, _)
StrLess(a, b) ==
  IF b = <<>> THEN FALSE
  ELSE IF a = <<>> THEN TRUE
  ELSE IF Ord(a[1]) # Ord(b[1]) THEN Ord(a[1]) < Ord(b[1])
  ELSE StrLess(Tail(a), Tail(b))

\* ---------------------------------------------------------------- grouping
\* grouped[key].append(item) on a defaultdict(list), kept in insertion order
GroupAppend(g, key, item) ==
  IF \E k \in 1..Len(g) : g[k].key = key
  THEN [k \in 1..Len(g) |->
          IF g[k].key = key THEN [key |-> key, items |-> Append(g[k].items, item)] ELSE g[k]]
  ELSE Append(g, [key |-> key, items |-> <<item>>])

\* the first loop of group_items_by_month over rss_items[k..]
RECURSIVE GroupLoop(_, _, _, _)
GroupLoop(im, rss_items, k, g) ==
  IF k > Len(rss_items) THEN [raised |-> FALSE, groups |-> g]
  ELSE LET item == rss_items[k]
       IN  IF StrptimeOk(item.pub_date)
           THEN LET dt == Strptime(item.pub_date)
                IN  GroupLoop(im, rss_items, k + 1,
                              GroupAppend(g, MonthYearKey(dt), [item EXCEPT !.datetime = dt]))
           ELSE IF im = "scripts"
                THEN GroupLoop(im, rss_items, k + 1, GroupAppend(g, Unknown, item))
                ELSE [raised |-> TRUE, groups |-> <<>>]

\* sorted(grouped.items(), key=lambda x: x[0], reverse=True): stable
RECURSIVE SortGroupsDesc(_)
SortGroupsDesc(g) ==
  IF g = <<>> THEN <<>>
  ELSE LET x == Last(g)
           rest == SortGroupsDesc(SubSeq(g, 1, Len(g) - 1))
           p == Cardinality({k \in 1..Len(rest) : ~StrLess(rest[k].key, x.key)})
       IN  SubSeq(rest, 1, p) \o <<x>> \o SubSeq(rest, p + 1, Len(rest))

\* x.get("datetime", datetime.min)
ItemSortKey(item) == IF item.datetime = NoDatetime THEN DatetimeMin ELSE item.datetime

\* items.sort(key=..., reverse=True): stable
RECURSIVE SortItemsDesc(_)
SortItemsDesc(items) ==
  IF items = <<>> THEN <<>>
  ELSE LET x == Last(items)
           rest == SortItemsDesc(SubSeq(items, 1, Len(items) - 1))
           p == Cardinality({k \in 1..Len(rest) : ~DtLess(ItemSortKey(rest[k]), ItemSortKey(x))})
       IN  SubSeq(rest, 1, p) \o <<x>> \o SubSeq(rest, p + 1, Len(rest))

\* group_items_by_month: raised is TRUE when main.py's strptime raises
GroupItemsByMonth(im, rss_items) ==
  LET r == GroupLoop(im, rss_items, 1, <<>>)
      sorted_groups == SortGroupsDesc(r.groups)
  IN  [raised |-> r.raised,
       groups |-> [k \in 1..Len(sorted_groups) |->
                     [key |-> sorted_groups[k].key, items |-> SortItemsDesc(sorted_groups[k].items)]]]

\* ----------------------------------------------------------- heading pass
Whitespace == {" "}
Glyph == "U+1F5D3"

DateStampLine(im, pub_date, spaces) ==
  Repeat(" ", spaces) \o <<Glyph, " ", "*", "*">> \o FormatFullDate(im, pub_date) \o <<"*", "*">>

IsHeadingLine(line) ==
  LET stripped_line == Strip(line, Whitespace)
  IN  stripped_line # <<>> /\ stripped_line[1] = "#"

NewHeading(line) ==
  LET stripped_line == Strip(line, Whitespace)
      heading_level == Len(stripped_line) - Len(LStrip(stripped_line, {"#"}))
      heading_text == Strip(SubSeq(stripped_line, heading_level + 1, Len(stripped_line)), Whitespace)
  IN  Repeat("#", heading_level + 1) \o <<" ">> \o heading_text

\* ProcessLines with first_heading_found never set: a stamp after every heading
RECURSIVE ProcessLines_StampEveryHeading(_, _, _, _, _)
ProcessLines_StampEveryHeading(im, lines, pub_date, spaces, first_heading_found) ==
  IF lines = <<>> THEN <<>>
  ELSE LET line == Head(lines)
           stripped_line == Strip(line, Whitespace)
       IN  IF IsHeadingLine(line)
           THEN << Repeat(" ", spaces) \o NewHeading(line),
                   <<>>,
                   DateStampLine(im, pub_date, spaces),
                   <<>> >>
                \o ProcessLines_StampEveryHeading(im, Tail(lines), pub_date, spaces, FALSE)
           ELSE IF stripped_line # <<>>
           THEN << Repeat(" ", spaces) \o line >>
                \o ProcessLines_StampEveryHeading(im, Tail(lines), pub_date, spaces, FALSE)
           ELSE << line >> \o ProcessLines_StampEveryHeading(im, Tail(lines), pub_date, spaces, FALSE)

\* the loop of add_heading_level_and_date over lines, from first_heading_found
RECURSIVE ProcessLines(_, _, _, _, _)
ProcessLines(im, lines, pub_date, spaces, first_heading_found) ==
  IF lines = <<>> THEN <<>>
  ELSE LET line == Head(lines)
           stripped_line == Strip(line, Whitespace)
       IN  IF IsHeadingLine(line)
           THEN IF ~first_heading_found
                THEN << Repeat(" ", spaces) \o NewHeading(line),
                        <<>>,
                        DateStampLine(im, pub_date, spaces),
                        <<>> >>
                     \o ProcessLines(im, Tail(lines), pub_date, spaces, TRUE)
                ELSE << Repeat(" ", spaces) \o NewHeading(line) >>
                     \o ProcessLines(im, Tail(lines), pub_date, spaces, first_heading_found)
           ELSE IF stripped_line # <<>>
           THEN << Repeat(" ", spaces) \o line >>
                \o ProcessLines(im, Tail(lines), pub_date, spaces, first_heading_found)
           ELSE << line >> \o ProcessLines(im, Tail(lines), pub_date, spaces, first_heading_found)

\* processed_lines of add_heading_level_and_date
ProcessedLines(im, content, pub_date, spaces) ==
  ProcessLines(im, Split(content, "\n"), pub_date, spaces, FALSE)

AddHeadingLevelAndDate(im, content, pub_date, spaces) ==
  Join(ProcessedLines(im, content, pub_date, spaces), "\n")

\* ------------------------------------------------------------------- state
VARIABLES
  impl,               \* which implementation runs
  pc,                 \* where the run is
  feedErr,            \* changelog.rss is missing or malformed
  feed,               \* the (link, pubDate) pairs of changelog.rss, in document order
  files,              \* markdown/<slug>.mdx: slug -> content, FileMissing or FileUnreadable
  rss_items,          \* the parsed items
  i,                  \* fetch loop: the item being processed (1-based)
  log,                \* fetch loop: the requests and sleeps made, in order
  successful,         \* successful_downloads / successful
  failed,             \* failed_downloads
  grouped,            \* combine: the sorted month buckets
  b,                  \* combine: the bucket being rendered
  j,                  \* combine: the item being rendered within the bucket
  changelog_content,  \* combine: the in-memory buffer, one element per +=
  outFile,            \* changelog.mdx
  writes,             \* combine: how many times changelog.mdx was opened for writing
  successful_reads,
  link,               \* slug derivation: the link
  slug_fetch,         \* slug derivation: extract_slug_from_url(link)
  slug_feed,          \* slug derivation: the slug of the parsed item
  content,            \* heading pass: the markdown body
  pub_date,           \* heading pass: the item's pubDate
  processed           \* heading pass: processed_lines

runVars == <<impl, pc, feedErr, feed, files, rss_items>>
fetchVars == <<i, log, successful, failed>>
combineVars == <<grouped, b, j, changelog_content, outFile, writes, successful_reads>>
slugVars == <<link, slug_fetch, slug_feed>>
headingVars == <<content, pub_date, processed>>
vars == <<runVars, fetchVars, combineVars, slugVars, headingVars>>

\* all strings over cs of at most n characters
SeqsUpTo(cs, n) == UNION {[1..k -> cs] : k \in 0..n}

\* ------------------------------------------------------------- file system
FileMissing == <<"ENOENT">>
FileUnreadable == <<"EIO">>
None == <<"None">>

\* what stood in changelog.mdx before the run
NoPubDate == [day |-> 0, mon |-> "", year |-> 0, hour |-> 0, tz |-> ""]

\* One += of the buffer: its text, and the entry (slug, pub_date) the text was
\* made from (the bucket's first entry for a wrapper), which the properties use.
Chunk(kind, text, slug, pd) == [kind |-> kind, text |-> text, slug |-> slug, pub_date |-> pd]

PriorOutput == <<Chunk("prior", <<"(earlier changelog.mdx)">>, <<>>, NoPubDate)>>

\* the link of the k-th feed item
ItemLink(k) == <<"h", ":", "/", "/", "d", "/", "c", "/", "v">> \o Decimal(k)

\* the markdown the host serves for a link: a heading naming the entry and a body line
BodyFor(slug) == <<"#", " ">> \o slug \o <<"\n", "x">>
MarkdownBody(lk) == BodyFor(FeedSlug(lk))

SlugsOf(fd) == {FeedSlug(fd[k].link) : k \in 1..Len(fd)} \cup {ExtractSlugFromUrl(fd[k].link) : k \in 1..Len(fd)}

Feeds == UNION {{[k \in 1..n |-> [link |-> ItemLink(k), pub_date |-> ds[k]]] : ds \in [1..n -> PubDates]} : n \in 0..MaxItems}

\* the items get_changelog_rss / parse_rss_feed return for a readable feed
ParseRssFeed(fd) ==
  [k \in 1..Len(fd) |->
     [link |-> fd[k].link, slug |-> FeedSlug(fd[k].link), pub_date |-> fd[k].pub_date,
      datetime |-> NoDatetime]]

\* truth value of a str-or-None
Truthy(c) == c # None /\ c # <<>>

\* ---------------------------------------------------------------- idle parts
FetchIdle == i = 0 /\ log = <<>> /\ successful = 0 /\ failed = 0

CombineIdle ==
  /\ grouped = <<>> /\ b = 0 /\ j = 0 /\ changelog_content = <<>>
  /\ outFile = PriorOutput /\ writes = 0 /\ successful_reads = 0

SlugIdle == link = <<>> /\ slug_fetch = Unset /\ slug_feed = Unset

HeadingIdle == content = <<>> /\ pub_date = PubDate(3, "Feb", 2024, 10, "GMT") /\ processed = UnsetLines

RunIdle == feedErr = FALSE /\ feed = <<>> /\ files = <<>> /\ rss_items = <<>>

\* ------------------------------------------------------------------- fetch
\* What one item's request and save come to.
Outcomes == {"ok", "empty", "http_error", "net_error", "write_error"}

InitFetch ==
  /\ impl \in Impls
  /\ pc = "fetch_parse"
  /\ \/ feedErr = TRUE /\ feed = <<>>
     \/ feedErr = FALSE /\ feed \in {f \in Feeds : \A k \in 1..Len(f) : f[k].pub_date = PubDate(3, "Feb", 2024, 10, "GMT")}
  /\ files = [s \in SlugsOf(feed) |-> FileMissing]
  /\ rss_items = <<>>
  /\ FetchIdle /\ CombineIdle /\ SlugIdle /\ HeadingIdle

\* parse_rss_feed / get_changelog_rss at the head of the fetch stage
FetchParse ==
  /\ pc = "fetch_parse"
  /\ IF feedErr
     THEN /\ pc' = IF impl = "scripts" THEN "fetch_exit" ELSE "crashed_parse"
          /\ UNCHANGED <<rss_items, i>>
     ELSE /\ rss_items' = ParseRssFeed(feed)
          /\ i' = 1
          /\ pc' = IF feed = <<>>
                   THEN IF impl = "scripts" THEN "fetch_exit" ELSE "fetch_summary"
                   ELSE "fetch_item"
  /\ UNCHANGED <<impl, feedErr, feed, files, log, successful, failed>>
  /\ UNCHANGED <<combineVars, slugVars, headingVars>>

\* the slug the fetch stage saves item under
FetchSlug(im, item) == IF im = "scripts" THEN ExtractSlugFromUrl(item.link) ELSE item.slug

\* whether the loop body of main.py raises on this outcome
FetchRaises(im, o) == im = "main" /\ o \in {"http_error", "net_error", "write_error"}

\* after the body for item k of n: the sleep, or straight on
AfterItem(im, k, n) == IF im = "main" \/ k < n THEN "fetch_sleep" ELSE "fetch_summary"

\* one pass of the loop body up to the delay: fetch_markdown_content, save_mdx_file
FetchItem ==
  /\ pc = "fetch_item"
  /\ i <= Len(rss_items)
  /\ \E o \in Outcomes :
       /\ log' = Append(log, [ev |-> "request", item |-> i, outcome |-> o])
       /\ files' = IF o = "ok"
                   THEN [files EXCEPT ![FetchSlug(impl, rss_items[i])] = MarkdownBody(rss_items[i].link)]
                   ELSE files
       /\ successful' = IF o = "ok" THEN successful + 1 ELSE successful
       /\ failed' = IF o # "ok" /\ impl = "scripts" THEN failed + 1 ELSE failed
       /\ pc' = IF FetchRaises(impl, o) THEN "crashed_fetch" ELSE AfterItem(impl, i, Len(rss_items))
  /\ UNCHANGED <<impl, feedErr, feed, rss_items, i>>
  /\ UNCHANGED <<combineVars, slugVars, headingVars>>

\* time.sleep(1)
FetchSleep ==
  /\ pc = "fetch_sleep"
  /\ log' = Append(log, [ev |-> "sleep", item |-> i, outcome |-> "slept"])
  /\ i' = i + 1
  /\ pc' = IF i + 1 <= Len(rss_items) THEN "fetch_item" ELSE "fetch_summary"
  /\ UNCHANGED <<impl, feedErr, feed, files, rss_items, successful, failed>>
  /\ UNCHANGED <<combineVars, slugVars, headingVars>>

\* the summary and the stage's result
FetchSummary ==
  /\ pc = "fetch_summary"
  /\ pc' = IF successful > 0 THEN "fetch_ok" ELSE "fetch_failed"
  /\ UNCHANGED <<impl, feedErr, feed, files, rss_items>>
  /\ UNCHANGED <<fetchVars, combineVars, slugVars, headingVars>>

NextFetch == FetchParse \/ FetchItem \/ FetchSleep \/ FetchSummary

SpecFetch == InitFetch /\ [][NextFetch]_vars

\* the loop is over: it ran to its end, or an exception ended it
FetchEnded == pc \in {"fetch_ok", "fetch_failed", "crashed_fetch"}

\* ----------------------------------------------------------------- combine
Frontmatter ==
  Chunk("frontmatter",
        <<"---", "\n", "title: \"Changelog\"", "\n",
          "description: \"Product updates and announcements\"", "\n", "---", "\n", "\n">>,
        <<>>, NoPubDate)

\* f'<Update label="{month_label}">\n'
UpdateOpen(im, first) ==
  Chunk("open", <<"<Update label=\"">> \o FormatDateForLabel(im, first.pub_date) \o <<"\">", "\n">>,
        first.slug, first.pub_date)

\* processed_content + "\n\n"
Entry(im, item, mdx_content) ==
  Chunk("item", AddHeadingLevelAndDate(im, mdx_content, item.pub_date, Spaces) \o <<"\n", "\n">>,
        item.slug, item.pub_date)

UpdateClose == Chunk("close", <<"</Update>", "\n", "\n">>, <<>>, NoPubDate)

\* read_mdx_file: combine_mdx.py returns None for a missing or unreadable file,
\* main.py lets the exception out
ReadMdxFile(im, fs, slug) ==
  IF fs[slug] \in {FileMissing, FileUnreadable}
  THEN [raised |-> im = "main", content |-> None]
  ELSE [raised |-> FALSE, content |-> fs[slug]]

\* markdown/<slug>.mdx in one of its states
FileStates == {"missing", "unreadable", "ok"}
FileOf(st, slug) ==
  CASE st = "missing" -> FileMissing
    [] st = "unreadable" -> FileUnreadable
    [] st = "ok" -> BodyFor(slug)

InitCombine ==
  /\ impl \in Impls
  /\ pc = "combine_parse"
  /\ \/ feedErr = TRUE /\ feed = <<>>
     \/ feedErr = FALSE /\ feed \in Feeds
  /\ \E st \in [SlugsOf(feed) -> FileStates] : files = [s \in SlugsOf(feed) |-> FileOf(st[s], s)]
  /\ rss_items = <<>>
  /\ FetchIdle /\ CombineIdle /\ SlugIdle /\ HeadingIdle

\* CombineParse with changelog.mdx opened for writing before the buffer is built
CombineParse_OpenFirst ==
  /\ pc = "combine_parse"
  /\ ~feedErr
  /\ rss_items' = ParseRssFeed(feed)
  /\ changelog_content' = <<Frontmatter>>
  /\ outFile' = <<>>
  /\ writes' = writes + 1
  /\ pc' = "combine_group"
  /\ UNCHANGED <<impl, feedErr, feed, files>>
  /\ UNCHANGED <<grouped, b, j, successful_reads>>
  /\ UNCHANGED <<fetchVars, slugVars, headingVars>>

\* parse_rss_feed / get_changelog_rss, and the frontmatter the buffer starts with
CombineParse ==
  /\ pc = "combine_parse"
  /\ IF feedErr
     THEN /\ pc' = IF impl = "scripts" THEN "combine_exit" ELSE "crashed_parse"
          /\ UNCHANGED <<rss_items, changelog_content>>
     ELSE IF feed = <<>> /\ impl = "scripts"
     THEN /\ pc' = "combine_exit"
          /\ UNCHANGED <<rss_items, changelog_content>>
     ELSE /\ rss_items' = ParseRssFeed(feed)
          /\ changelog_content' = <<Frontmatter>>
          /\ pc' = "combine_group"
  /\ UNCHANGED <<impl, feedErr, feed, files>>
  /\ UNCHANGED <<grouped, b, j, outFile, writes, successful_reads>>
  /\ UNCHANGED <<fetchVars, slugVars, headingVars>>

\* grouped_items = group_items_by_month(rss_items)
CombineGroup ==
  /\ pc = "combine_group"
  /\ LET r == GroupItemsByMonth(impl, rss_items)
     IN  IF r.raised
         THEN pc' = "crashed_group" /\ UNCHANGED <<grouped, b>>
         ELSE grouped' = r.groups /\ b' = 1 /\ pc' = "combine_bucket"
  /\ UNCHANGED <<impl, feedErr, feed, files, rss_items>>
  /\ UNCHANGED <<j, changelog_content, outFile, writes, successful_reads>>
  /\ UNCHANGED <<fetchVars, slugVars, headingVars>>

\* the head of the loop over grouped_items: the "unknown" bucket is passed over,
\* any other bucket gets its opening wrapper line
CombineBucket ==
  /\ pc = "combine_bucket"
  /\ IF b > Len(grouped)
     THEN pc' = "combine_write" /\ UNCHANGED <<b, j, changelog_content>>
     ELSE IF grouped[b].key = Unknown
     THEN b' = b + 1 /\ UNCHANGED <<pc, j, changelog_content>>
     ELSE IF grouped[b].items # <<>>
     THEN /\ changelog_content' = Append(changelog_content, UpdateOpen(impl, grouped[b].items[1]))
          /\ j' = 1
          /\ pc' = "combine_item"
          /\ UNCHANGED b
     ELSE b' = b + 1 /\ UNCHANGED <<pc, j, changelog_content>>
  /\ UNCHANGED <<impl, feedErr, feed, files, rss_items>>
  /\ UNCHANGED <<grouped, outFile, writes, successful_reads>>
  /\ UNCHANGED <<fetchVars, slugVars, headingVars>>

\* one pass of the loop over the bucket's items: read the file, render the entry
CombineItem ==
  /\ pc = "combine_item"
  /\ j <= Len(grouped[b].items)
  /\ LET item == grouped[b].items[j]
         r == ReadMdxFile(impl, files, item.slug)
     IN  IF r.raised
         THEN pc' = "crashed_read" /\ UNCHANGED <<j, changelog_content, successful_reads>>
         ELSE IF Truthy(r.content)
         THEN /\ changelog_content' = Append(changelog_content, Entry(impl, item, r.content))
              /\ successful_reads' = successful_reads + 1
              /\ j' = j + 1
              /\ UNCHANGED pc
         ELSE j' = j + 1 /\ UNCHANGED <<pc, changelog_content, successful_reads>>
  /\ UNCHANGED <<impl, feedErr, feed, files, rss_items>>
  /\ UNCHANGED <<grouped, b, outFile, writes>>
  /\ UNCHANGED <<fetchVars, slugVars, headingVars>>

\* CombineClose with a wrapper that held no entry taken back out of the buffer
CombineClose_DropEmptyWrapper ==
  /\ pc = "combine_item"
  /\ j > Len(grouped[b].items)
  /\ changelog_content' =
       IF Last(changelog_content).kind = "open"
       THEN SubSeq(changelog_content, 1, Len(changelog_content) - 1)
       ELSE Append(changelog_content, UpdateClose)
  /\ b' = b + 1
  /\ pc' = "combine_bucket"
  /\ UNCHANGED <<impl, feedErr, feed, files, rss_items>>
  /\ UNCHANGED <<grouped, j, outFile, writes, successful_reads>>
  /\ UNCHANGED <<fetchVars, slugVars, headingVars>>

\* changelog_content += "</Update>\n\n" once the bucket's items are through
CombineClose ==
  /\ pc = "combine_item"
  /\ j > Len(grouped[b].items)
  /\ changelog_content' = Append(changelog_content, UpdateClose)
  /\ b' = b + 1
  /\ pc' = "combine_bucket"
  /\ UNCHANGED <<impl, feedErr, feed, files, rss_items>>
  /\ UNCHANGED <<grouped, j, outFile, writes, successful_reads>>
  /\ UNCHANGED <<fetchVars, slugVars, headingVars>>

\* What open(output_file, "w") and f.write come to: written in full, not opened
\* at all, or opened (truncated) and cut short by an error after p elements.
WriteOutcomes == {"ok", "open_error", "write_error"}

\* the final write of the buffer
CombineWrite ==
  /\ pc = "combine_write"
  /\ \E o \in WriteOutcomes :
       \E p \in 0..(Len(changelog_content) - 1) :
         /\ outFile' = CASE o = "ok" -> changelog_content
                         [] o = "open_error" -> outFile
                         [] o = "write_error" -> SubSeq(changelog_content, 1, p)
         /\ writes' = IF o = "open_error" THEN writes ELSE writes + 1
         /\ pc' = IF o = "ok" THEN "combine_done"
                  ELSE IF impl = "scripts" THEN "combine_failed" ELSE "crashed_write"
  /\ UNCHANGED <<impl, feedErr, feed, files, rss_items>>
  /\ UNCHANGED <<grouped, b, j, changelog_content, successful_reads>>
  /\ UNCHANGED <<fetchVars, slugVars, headingVars>>

NextCombine ==
  CombineParse \/ CombineGroup \/ CombineBucket \/ CombineItem \/ CombineClose \/ CombineWrite

SpecCombine == InitCombine /\ [][NextCombine]_vars

\* --------------------------------------------------------- slug derivation
\* A link is an absolute URL: a scheme and host, with or without the slash
\* that starts the path, and a free tail.
LinkPrefixes == {<<"a", ":", "/", "/", "a">>, <<"a", ":", "/", "/", "a", "/">>}

InitSlug ==
  /\ impl \in Impls
  /\ pc = "slug"
  /\ link \in {pre \o tl : pre \in LinkPrefixes, tl \in SeqsUpTo(LinkChars, MaxLinkLen)}
  /\ slug_fetch = Unset /\ slug_feed = Unset
  /\ RunIdle /\ FetchIdle /\ CombineIdle /\ HeadingIdle

\* fetch_mdx.py main: slug = extract_slug_from_url(item["link"])
SlugOfFetch ==
  /\ pc = "slug"
  /\ slug_fetch = Unset
  /\ slug_fetch' = ExtractSlugFromUrl(link)
  /\ UNCHANGED <<link, slug_feed>>
  /\ UNCHANGED <<runVars, fetchVars, combineVars, headingVars>>

\* combine_mdx.py parse_rss_feed (impl = "scripts"), main.py get_changelog_rss (impl = "main")
SlugOfFeed ==
  /\ pc = "slug"
  /\ slug_feed = Unset
  /\ slug_feed' = ParseRssFeed(<<[link |-> link, pub_date |-> pub_date]>>)[1].slug
  /\ UNCHANGED <<link, slug_fetch>>
  /\ UNCHANGED <<runVars, fetchVars, combineVars, headingVars>>

NextSlug == SlugOfFetch \/ SlugOfFeed

SpecSlug == InitSlug /\ [][NextSlug]_vars

\* ------------------------------------------------------ heading pass alone
ContentChars == {"#", " ", "x", "\n"}

InitHeading ==
  /\ impl \in Impls
  /\ pc = "heading"
  /\ content \in SeqsUpTo(ContentChars, MaxContentLen)
  /\ pub_date \in ParseableDates
  /\ processed = UnsetLines
  /\ RunIdle /\ FetchIdle /\ CombineIdle /\ SlugIdle

\* add_heading_level_and_date(content, pub_date)
HeadingPass ==
  /\ pc = "heading"
  /\ processed = UnsetLines
  /\ processed' = ProcessedLines(impl, content, pub_date, Spaces)
  /\ UNCHANGED <<content, pub_date>>
  /\ UNCHANGED <<runVars, fetchVars, combineVars, slugVars>>

NextHeading == HeadingPass

SpecHeading == InitHeading /\ [][NextHeading]_vars

\* ============================================================== properties
\* --------------------------------------------------------------- fetch stage
Requests == SelectSeq(log, LAMBDA e : e.ev = "request")
Sleeps == SelectSeq(log, LAMBDA e : e.ev = "sleep")

\* C1: once the fetch loop is over, every item of the feed has been requested,
\* each once and in feed order, whatever the outcomes of the earlier items were
\* (a non-2xx response or a network error on item k does not keep items
\* k+1..n from being attempted).
C1_AllItemsAttempted ==
  (FetchEnded /\ ~feedErr) =>
     /\ Len(Requests) = Len(feed)
     /\ \A k \in 1..Len(Requests) : Requests[k].item = k

\* C9: a fetch run over n >= 1 items that runs to its end has slept exactly
\* n-1 times: the log is request 1, sleep, request 2, sleep, ..., request n,
\* with no sleep after the last item.
C9_DelayBetweenItemsOnly ==
  (pc \in {"fetch_ok", "fetch_failed"} /\ Len(feed) >= 1) =>
     /\ Len(Sleeps) = Len(feed) - 1
     /\ Len(log) = 2 * Len(feed) - 1
     /\ \A m \in 1..Len(log) :
          IF m % 2 = 1
          THEN log[m].ev = "request" /\ log[m].item = (m + 1) \div 2
          ELSE log[m].ev = "sleep" /\ log[m].item = m \div 2

\* ----------------------------------------------------------- slug derivation
UrlSafeChars == AsciiLetters \cup AsciiDigits \cup {"_", "-"}

WellFormedSlug(s) ==
  /\ \A k \in 1..Len(s) : s[k] \in UrlSafeChars
  /\ s # <<>> => s[1] # "-" /\ s[Len(s)] # "-"
  /\ \A k \in 1..(Len(s) - 1) : ~(s[k] = "-" /\ s[k + 1] = "-")

\* C7: every derived slug (extract_slug_from_url, and the inline derivation of
\* get_changelog_rss and parse_rss_feed) has only characters of [A-Za-z0-9_-],
\* neither starts nor ends with "-", and has no two "-" in a row.
C7_SlugIsUrlSafe ==
  /\ slug_fetch # Unset => WellFormedSlug(slug_fetch)
  /\ slug_feed # Unset => WellFormedSlug(slug_feed)

\* C10: for every link, the slug the fetch stage saves the entry under is the
\* slug the combine stage looks the entry up under.
C10_FetchAndCombineAgreeOnSlug ==
  (slug_fetch # Unset /\ slug_feed # Unset) => slug_fetch = slug_feed

\* ------------------------------------------------------------ combine stage
AllParseable == \A k \in 1..Len(feed) : StrptimeOk(feed[k].pub_date)
SomeUnparseable == \E k \in 1..Len(feed) : ~StrptimeOk(feed[k].pub_date)

Readable(k) == files[FeedSlug(feed[k].link)] \notin {FileMissing, FileUnreadable}

\* the document holds the entry made from feed item k
InDocument(doc, k) ==
  \E c \in 1..Len(doc) :
     /\ doc[c].kind = "item"
     /\ doc[c].slug = FeedSlug(feed[k].link)
     /\ doc[c].pub_date = feed[k].pub_date

OfKind(doc, kind) == SelectSeq(doc, LAMBDA c : c.kind = kind)

\* C2: with an item whose pubDate does not parse in the feed (and every other
\* item's file readable), combine still runs to its end and writes the document;
\* the unparseable item is not in it, every parseable item is.
C2_UnparseableDateSkipped ==
  ( /\ pc \in {"combine_done", "crashed_group", "crashed_read"}
    /\ SomeUnparseable
    /\ \A k \in 1..Len(feed) : Readable(k) ) =>
     /\ pc = "combine_done"
     /\ \A k \in 1..Len(feed) :
          InDocument(outFile, k) <=> StrptimeOk(feed[k].pub_date)

\* C4: with all dates parseable and some per-slug files missing or unreadable,
\* combine still runs to its end and writes the document; the items without a
\* readable file are left out, all the others are rendered.
C4_MissingFilesSkipped ==
  ( /\ pc \in {"combine_done", "crashed_group", "crashed_read"}
    /\ feed # <<>> /\ AllParseable
    /\ \E k \in 1..Len(feed) : ~Readable(k) ) =>
     /\ pc = "combine_done"
     /\ \A k \in 1..Len(feed) : InDocument(outFile, k) <=> Readable(k)

NoFileAtAll == \A k \in 1..Len(feed) : files[FeedSlug(feed[k].link)] = FileMissing

FeedMonths == {<<feed[k].pub_date.year, feed[k].pub_date.mon>> : k \in 1..Len(feed)}

MonthOf(pd) == <<pd.year, CHOOSE m \in 1..12 : MonthAbbrevs[m] = pd.mon>>
MonthBefore(x, y) == x[1] < y[1] \/ (x[1] = y[1] /\ x[2] < y[2])
\* day and hour order within a month
LaterInMonth(p, q) == p.day > q.day \/ (p.day = q.day /\ p.hour > q.hour)

\* C5: for a feed whose dates all parse, group_items_by_month returns one
\* bucket per calendar month, the buckets in strictly descending month order,
\* every item in the bucket of its month, the items of a bucket in
\* non-increasing timestamp order; and the written document has its wrappers
\* and its entries in that order.
C5_BucketsNewestFirst ==
  (AllParseable /\ grouped # <<>>) =>
     /\ \A k \in 1..Len(feed) :
          Cardinality({<<g, m>> \in (1..Len(grouped)) \X (1..Len(feed)) :
                          /\ m <= Len(grouped[g].items)
                          /\ grouped[g].items[m].link = feed[k].link
                          /\ grouped[g].items[m].pub_date = feed[k].pub_date}) = 1
     /\ \A g \in 1..Len(grouped) :
          /\ grouped[g].items # <<>>
          /\ \A m \in 1..Len(grouped[g].items) :
               MonthOf(grouped[g].items[m].pub_date) = MonthOf(grouped[g].items[1].pub_date)
          /\ \A m, n \in 1..Len(grouped[g].items) :
               m < n => ~LaterInMonth(grouped[g].items[n].pub_date, grouped[g].items[m].pub_date)
     /\ \A g, h \in 1..Len(grouped) :
          g < h => MonthBefore(MonthOf(grouped[h].items[1].pub_date),
                               MonthOf(grouped[g].items[1].pub_date))
     /\ pc = "combine_done" =>
          LET opens == OfKind(outFile, "open")
              items == OfKind(outFile, "item")
          IN  /\ Len(opens) = Len(grouped)
              /\ \A g \in 1..Len(opens) : opens[g].pub_date = grouped[g].items[1].pub_date
              /\ \A m, n \in 1..Len(items) :
                   m < n =>
                     \/ MonthBefore(MonthOf(items[n].pub_date), MonthOf(items[m].pub_date))
                     \/ /\ MonthOf(items[n].pub_date) = MonthOf(items[m].pub_date)
                        /\ ~LaterInMonth(items[n].pub_date, items[m].pub_date)

\* the buffer holds every bucket, opened and closed
BufferAssembled ==
  /\ grouped # <<>> \/ (impl = "main" /\ feed = <<>>)
  /\ b > Len(grouped)
  /\ changelog_content # <<>>
  /\ changelog_content[1] = Frontmatter
  /\ Len(OfKind(changelog_content, "close")) = Cardinality({g \in 1..Len(grouped) : grouped[g].key # Unknown})
  /\ Len(OfKind(changelog_content, "open")) = Len(OfKind(changelog_content, "close"))

\* C8: changelog.mdx is opened for writing at most once in a combine run, and
\* only once every bucket has been rendered into the buffer; a run that stops
\* before that (feed error, date error, read error) leaves the file as it was,
\* and a run that ends well leaves the whole buffer in it.
C8_WrittenOnceWhenAssembled ==
  /\ writes <= 1
  /\ (writes > 0 \/ outFile # PriorOutput) =>
        /\ BufferAssembled
        /\ pc \in {"combine_done", "combine_failed", "crashed_write"}
  /\ pc \in {"combine_parse", "combine_group", "combine_bucket", "combine_item", "combine_write",
             "combine_exit", "crashed_parse", "crashed_group", "crashed_read"} =>
        outFile = PriorOutput /\ writes = 0
  /\ pc = "combine_done" => outFile = changelog_content /\ writes = 1

C8_Witness ==
  /\ pc = "combine_done" /\ writes = 1
  /\ outFile = changelog_content
  /\ Len(OfKind(outFile, "close")) >= 2
  /\ Len(OfKind(outFile, "item")) >= 2

\* ------------------------------------------------------------- heading pass
ContentLines == Split(content, "\n")

\* a line whose first character other than a blank is "#"
HeadingAt(k) ==
  \E q \in 1..Len(ContentLines[k]) :
     /\ ContentLines[k][q] = "#"
     /\ \A r \in 1..(q - 1) : ContentLines[k][r] = " "

Headings == {k \in 1..Len(ContentLines) : HeadingAt(k)}

\* where the date stamp stands in the output
StampAt == {k \in 1..Len(processed) : processed[k] = DateStampLine(impl, pub_date, Spaces)}

\* C6: add_heading_level_and_date emits the date-stamp line once when the
\* content has a heading line: after the first heading line, with one empty
\* line between them and one empty line after it, never after a later
\* heading; and it emits no date-stamp line when the content has no heading.
C6_DateStampOnceAfterFirstHeading ==
  processed # UnsetLines =>
     IF Headings = {}
     THEN StampAt = {} /\ Len(processed) = Len(ContentLines)
     ELSE LET h == CHOOSE k \in Headings : \A m \in Headings : k <= m
          IN  /\ StampAt = {h + 2}
              /\ Len(processed) = Len(ContentLines) + 3
              /\ processed[h] # <<>> /\ processed[h][Spaces + 1] = "#"
              /\ processed[h + 1] = <<>>
              /\ processed[h + 3] = <<>>

C6_Witness ==
  /\ processed # UnsetLines
  /\ Cardinality(Headings) >= 2
  /\ 1 \notin Headings
  /\ Cardinality(StampAt) = 1

\* ------------------------------------------------- where the two sides agree
\* C1, C9 for fetch_mdx.py alone
C1_ScriptsAllItemsAttempted == impl = "scripts" => C1_AllItemsAttempted
C9_ScriptsDelayBetweenItemsOnly == impl = "scripts" => C9_DelayBetweenItemsOnly

\* C2, C4 for combine_mdx.py alone
C2_ScriptsUnparseableDateSkipped == impl = "scripts" => C2_UnparseableDateSkipped
C4_ScriptsMissingFilesSkipped == impl = "scripts" => C4_MissingFilesSkipped

\* C5 for feeds whose years have four digits
C5_FourDigitYears ==
  (\A k \in 1..Len(feed) : feed[k].pub_date.year >= 1000) => C5_BucketsNewestFirst

\* C7 for links without a non-ASCII letter
C7_AsciiLinks ==
  (\A k \in 1..Len(link) : link[k] # "U+00E9") => C7_SlugIsUrlSafe

\* C10 for links with no query, no fragment and a path that names something
C10_PlainPathLinks ==
  ( /\ \A k \in 1..Len(link) : link[k] \notin {"?", "#"}
    /\ Strip(UrlPath(link), {"/"}) # <<>> ) => C10_FetchAndCombineAgreeOnSlug

====
